---- MODULE Spec2Model ----
(***************************************************************************)
(* Model of the Key Vault managed-storage-account sample.                  *)
(*                                                                         *)
(* Two workflow variants live in the repository:                           *)
(*   "old": the vault-managed workflow (src/unnamed/part_000 lines 1-262)  *)
(*          on top of the utility module src/unnamed/part_002;             *)
(*   "new": the newer-SDK workflow (src/unnamed/part_000 lines 265-445)    *)
(*          on top of the utility module src/sample_util.js.               *)
(*                                                                         *)
(* The state is the position of main(), the in-memory config object, the   *)
(* remote resources the calls act on, the ordered log of every remote call *)
(* (authentication exchanges included) and what the process printed and    *)
(* exited with.  Every remote call is one action; its outcome is chosen    *)
(* nondeterministically among success and the failures the service can     *)
(* report.                                                                 *)
(***************************************************************************)
EXTENDS Integers, Sequences, FiniteSets, TLC

VARIABLES variant, env, hasVaultName, runtime,
          pc, auth, status, called, log,
          config_vault, config_userId, remote, out, exitCode, inflight

vars == <<variant, env, hasVaultName, runtime, pc, auth, status, called, log,
          config_vault, config_userId, remote, out, exitCode, inflight>>

\* Longest access-policy list a pre-existing (configured) vault starts with.
MaxPrePolicies == 1

Variants == {"old", "new"}

\* The policy of the node runtime for a rejected promise nobody handles:
\* "warn" (node 8 to 14: a warning, the exit status stays 0) or "throw"
\* (node 15 and later: the process dies with status 1).
Runtimes == {"warn", "throw"}

\* ------------------------------------------------------------------------
\* Configuration validation (module load of the utility module)
\* ------------------------------------------------------------------------

RequiredEnvs ==
    <<"AZURE_SUBSCRIPTION_ID", "AZURE_TENANT_ID", "AZURE_CLIENT_ID",
      "AZURE_CLIENT_OID", "AZURE_CLIENT_SECRET">>

RequiredEnvSet == {RequiredEnvs[i] : i \in 1..Len(RequiredEnvs)}

\* var envs = []; if (!process.env[X]) envs.push(X); ... in source order
envs(present) == SelectSeq(RequiredEnvs, LAMBDA n : n \notin present)

\* Whether the utility module binds the identifier `util` it formats the
\* message with: sample_util.js requires it, part_002 does not.
utilRequired(v) == v = "new"

\* A line the process prints; names are the configuration names it lists.
Msg(text) == [msg |-> text, names |-> <<>>]

\* What the throw statement of the validation raises: evaluating
\* util.format(...) with `util` unbound raises a ReferenceError before the
\* Error that carries the names is ever built.
ValidationError(v, present) ==
    IF utilRequired(v)
    THEN [msg |-> "Error: please set/export the following environment variables",
          names |-> envs(present)]
    ELSE Msg("ReferenceError: util is not defined")

\* ------------------------------------------------------------------------
\* Call sites
\* ------------------------------------------------------------------------

\* main-level function a call site belongs to
Fn(p) ==
    CASE p \in {"gsv.enter", "gsv.login", "gsv.get", "gsv.rg", "gsv.create"}
              -> "getSampleVault"
      [] p \in {"add.userCreds", "add.storageCreate", "add.roleList",
                "add.roleAssign", "add.login", "add.getToken",
                "add.vaultPush", "add.setStorageAccount", "add.createKey",
                "add.storageUpdate"} -> "addStorageAccount"
      [] p \in {"upd.activeKey", "upd.autoRegen", "upd.createKey",
                "upd.storageUpdate"} -> "updateStorageAccount"
      [] p \in {"regen.key"} -> "regenerateStorageAccountKey"
      [] p \in {"list.accounts"} -> "getStorageAccounts"
      [] p \in {"acctSas.setSasDef", "acctSas.getSecret",
                "acctSas.listAccountSAS", "acctSas.createContainer",
                "acctSas.createBlob"} -> "createAccountSASDefinition"
      [] p \in {"blobSas.setSasDef", "blobSas.getSecret",
                "blobSas.createBlob"} -> "createBlobSASDefinition"
      [] p \in {"listSas.defs"} -> "getSASDefinitions"
      [] p \in {"del.delete", "del.storageUpdate"} -> "deleteStorageAccount"
      [] OTHER -> "main"

\* Requests made through the Key Vault client that authenticates as the
\* user (getKeyVaultUserClient) and as the service principal
\* (getKeyVaultSpClient): the client asks its callback for a token first.
UserClientSites == {"add.setStorageAccount", "regen.key"}

SpClientSites ==
    {"upd.activeKey", "upd.autoRegen", "list.accounts", "acctSas.setSasDef",
     "acctSas.getSecret", "blobSas.setSasDef", "blobSas.getSecret",
     "listSas.defs", "del.delete"}

\* Where the authentication of a call site starts.  Only the vault-managed
\* variant uses the two Key Vault clients.
AuthStart(v, p) ==
    CASE p = "add.userCreds" -> "user.creds"
      [] p = "add.getToken" -> "user.token"
      [] v = "old" /\ p \in UserClientSites -> "user.creds"
      [] v = "old" /\ p \in SpClientSites -> "sp.token"
      [] OTHER -> "ready"

NoVault == [set |-> FALSE, name |-> "", policies |-> <<>>]

PrePolicies == UNION {[1..n -> {"pre"}] : n \in 0..MaxPrePolicies}

InitRemote(named, pre, inherited) ==
    [vaultExists |-> named,
     vaultName |-> IF named THEN "configured" ELSE "",
     vaultPolicies |-> pre,
     vaultDeleted |-> FALSE,
     groupEnsured |-> FALSE,
     saExists |-> FALSE,
     roleAssigned |-> inherited,
     managed |-> FALSE,
     activeKey |-> "none",
     autoRegen |-> FALSE,
     regenerated |-> FALSE,
     keySource |-> "Microsoft.Storage",
     encKey |-> "none",
     vaultKeys |-> {},
     sasDefs |-> {},
     sasSecrets |-> {},
     containers |-> {},
     blobs |-> {}]

Init ==
    /\ variant \in Variants
    /\ env \in SUBSET RequiredEnvSet
    /\ hasVaultName \in BOOLEAN
    /\ runtime \in Runtimes
    /\ pc = "load"
    /\ auth = "ready"
    /\ status = "running"
    /\ called = <<>>
    /\ log = <<>>
    /\ config_vault = NoVault
    /\ config_userId = FALSE
    /\ \E pre \in PrePolicies, inherited \in BOOLEAN :
          /\ (~hasVaultName => pre = <<>>)
          /\ remote = InitRemote(hasVaultName, pre, inherited)
    /\ out = <<>>
    /\ exitCode = -1
    /\ inflight = {}

\* ------------------------------------------------------------------------
\* Control flow helpers
\* ------------------------------------------------------------------------

\* The vault definition a call carries (none for most calls).
NoArg == [name |-> "", policies |-> <<>>]

\* A call is known by its call site and the authentication phase it serves.
CurrentCall == <<pc, auth>>

\* LogCall for a call that is not awaited: the continuation runs while the
\* call is still in flight.
LogCall_notAwaited(op, res, arg) ==
    /\ CurrentCall \in inflight
    /\ inflight' = inflight
    /\ log' = Append(log, [site |-> pc, op |-> op, res |-> res, arg |-> arg])

\* The call in flight at the current call site returns with `res`: it is no
\* longer in flight and the continuation of its await (or its callback) runs.
LogCall(op, res, arg) ==
    /\ CurrentCall \in inflight
    /\ inflight' = inflight \ {CurrentCall}
    /\ log' = Append(log, [site |-> pc, op |-> op, res |-> res, arg |-> arg])

\* The awaited call returned: control moves to call site p.  When p belongs
\* to another function of main, main has invoked that function.
Goto(p) ==
    /\ pc' = p
    /\ auth' = AuthStart(variant, p)
    /\ called' = IF Fn(p) # Fn(pc) /\ Fn(p) # "main"
                 THEN Append(called, Fn(p)) ELSE called
    /\ UNCHANGED <<status, out, exitCode>>

\* Exit status of a process whose only failure is a rejected promise that
\* nothing handles: main().then(onFulfilled) registers no rejection handler.
UnhandledRejectionExit(rt) == IF rt = "throw" THEN 1 ELSE 0

UnhandledRejectionOutput(rt) ==
    IF rt = "throw" THEN Msg("error") ELSE Msg("UnhandledPromiseRejectionWarning")

\* The awaited call threw: the rejection propagates through every await up to
\* the promise of main(), which has no rejection handler.
Reject ==
    /\ status' = "rejected"
    /\ exitCode' = UnhandledRejectionExit(runtime)
    /\ out' = Append(out, UnhandledRejectionOutput(runtime))
    /\ UNCHANGED <<pc, auth, called>>

\* A promise chain inside the authentication callback of the user client
\* rejected: nothing handles it and the callback is never called, so the
\* pending request, and with it main(), never settles.
Stall ==
    /\ status' = "stalled"
    /\ exitCode' = UnhandledRejectionExit(runtime)
    /\ out' = Append(out, UnhandledRejectionOutput(runtime))
    /\ UNCHANGED <<pc, auth, called>>

\* An exception thrown synchronously outside any promise (module load, a
\* library callback): the process prints it and dies with status 1.
Crash(text) ==
    /\ status' = "crashed"
    /\ exitCode' = 1
    /\ out' = Append(out, Msg(text))
    /\ UNCHANGED <<pc, auth, called>>

\* main() returned: its promise resolves and the then-callback prints.
Resolve ==
    /\ pc' = "end"
    /\ auth' = "ready"
    /\ status' = "done"
    /\ exitCode' = 0
    /\ out' = Append(out, Msg("Sample execution complete."))
    /\ UNCHANGED called

Inputs == <<variant, env, hasVaultName, runtime>>

\* ------------------------------------------------------------------------
\* Module load
\* ------------------------------------------------------------------------

ValidateEnv ==
    /\ status = "running" /\ pc = "load"
    /\ IF Len(envs(env)) > 0
       THEN /\ status' = "crashed"
            /\ exitCode' = 1
            /\ out' = Append(out, ValidationError(variant, env))
            /\ UNCHANGED <<pc, auth, called>>
       ELSE /\ pc' = "gsv.enter"
            /\ called' = Append(called, "getSampleVault")
            /\ UNCHANGED <<auth, status, out, exitCode>>
    /\ UNCHANGED <<Inputs, log, config_vault, config_userId, remote, inflight>>

\* Positions of the program that are not a remote call.
LocalSites == {"load", "gsv.enter", "end", "idle"}

\* The program reaches a remote call and sends it; control stays at the call
\* site (every call is awaited, or continued from its callback) until the
\* call returns.
sendRequest ==
    /\ status = "running"
    /\ pc \notin LocalSites
    /\ CurrentCall \notin inflight
    /\ inflight' = inflight \cup {CurrentCall}
    /\ UNCHANGED <<Inputs, pc, auth, status, called, log, config_vault,
                   config_userId, remote, out, exitCode>>

\* ------------------------------------------------------------------------
\* A remote call whose failure nothing catches
\* ------------------------------------------------------------------------

Outcomes == {"ok", "Error"}

\* Call `op` at call site `site`; on success the remote state becomes
\* remote2 and control moves to `next` ("end": main returns); on failure the
\* error propagates out of main.
\* GuardedCall with a compensating step: a failed call deletes the storage
\* account the run created.
GuardedCall_compensate(site, op, next, remote2, canSucceed) ==
    /\ status = "running" /\ pc = site /\ auth = "ready"
    /\ \E res \in Outcomes :
          /\ LogCall(op, res, NoArg)
          /\ IF res = "ok"
             THEN /\ canSucceed
                  /\ remote' = remote2
                  /\ IF next = "end" THEN Resolve ELSE Goto(next)
             ELSE /\ remote' = [remote EXCEPT !.saExists = FALSE,
                                              !.managed = FALSE]
                  /\ Reject
    /\ UNCHANGED <<Inputs, config_vault, config_userId>>

\* canSucceed is the service's own precondition for answering with success.
GuardedCall(site, op, next, remote2, canSucceed) ==
    /\ status = "running" /\ pc = site /\ auth = "ready"
    /\ \E res \in Outcomes :
          /\ LogCall(op, res, NoArg)
          /\ IF res = "ok"
             THEN /\ canSucceed
                  /\ remote' = remote2
                  /\ IF next = "end" THEN Resolve ELSE Goto(next)
             ELSE /\ UNCHANGED remote
                  /\ Reject
    /\ UNCHANGED <<Inputs, config_vault, config_userId>>

SimpleCall(site, op, next, remote2) ==
    GuardedCall(site, op, next, remote2, TRUE)

\* ------------------------------------------------------------------------
\* Authentication (utility module of the vault-managed variant)
\* ------------------------------------------------------------------------

\* The two places that call the user-credential functions directly and await
\* them (addStorageAccount); everywhere else they run inside the
\* authentication callback of the user client.
DirectSites == {"add.userCreds", "add.getToken"}

\* A failed login or token fetch: awaited directly it rejects main; inside
\* the callback of the user client the rejection is lost.
AuthFailure == IF pc \in DirectSites THEN Reject ELSE Stall

\* _getUserCredentials, the branch taken when config._userId is set: the
\* token is asked from the cache; a failure is caught and logged, and control
\* falls through to the interactive login.
getUserCredentials_acquireToken ==
    /\ status = "running" /\ auth = "user.creds" /\ config_userId
    /\ \E res \in Outcomes :
          /\ LogCall("acquireToken", res, NoArg)
          /\ IF res = "ok"
             THEN IF pc = "add.userCreds"
                  THEN Goto("add.storageCreate")
                  ELSE /\ auth' = "user.token"
                       /\ UNCHANGED <<pc, called, status, out, exitCode>>
             ELSE /\ auth' = "user.interactive"
                  /\ out' = Append(out, Msg("acquireToken error"))
                  /\ UNCHANGED <<pc, called, status, exitCode>>
    /\ UNCHANGED <<Inputs, config_vault, config_userId, remote>>

\* getUserCredentials_interactiveLogin forgetting to store creds.username in
\* config._userId.
getUserCredentials_interactiveLogin_noUserId ==
    /\ status = "running"
    /\ \/ auth = "user.interactive"
       \/ auth = "user.creds" /\ ~config_userId
    /\ \E res \in Outcomes :
          /\ LogCall("interactiveLogin", res, NoArg)
          /\ IF res = "ok"
             THEN IF pc = "add.userCreds"
                  THEN Goto("add.storageCreate")
                  ELSE /\ auth' = "user.token"
                       /\ UNCHANGED <<pc, called, status, out, exitCode>>
             ELSE AuthFailure
    /\ UNCHANGED <<Inputs, config_vault, config_userId, remote>>

\* _getUserCredentials, the interactive device-code login: reached when no
\* user id is stored yet or after the cached acquisition failed.
getUserCredentials_interactiveLogin ==
    /\ status = "running"
    /\ \/ auth = "user.interactive"
       \/ auth = "user.creds" /\ ~config_userId
    /\ \E res \in Outcomes :
          /\ LogCall("interactiveLogin", res, NoArg)
          /\ IF res = "ok"
             THEN /\ config_userId' = TRUE
                  /\ IF pc = "add.userCreds"
                     THEN Goto("add.storageCreate")
                     ELSE /\ auth' = "user.token"
                          /\ UNCHANGED <<pc, called, status, out, exitCode>>
             ELSE /\ UNCHANGED config_userId
                  /\ AuthFailure
    /\ UNCHANGED <<Inputs, config_vault, remote>>

\* The access-policy entry addStorageAccount appends: the user (old variant)
\* or the managed identity of the storage account (new variant).
accessPolicyEntry(v) == IF v = "old" THEN "user" ELSE "saIdentity"

\* PushPolicy assigning a new list instead of pushing onto the old one.
PushPolicy_replace(vault, entry) == [vault EXCEPT !.policies = <<entry>>]

\* vault.properties.accessPolicies.push(accessPolicyEntry): vault is the
\* object config.vault refers to.
PushPolicy(vault, entry) ==
    [vault EXCEPT !.policies = Append(vault.policies, entry)]

\* _tokenFromUserCredentials.  Awaited directly in addStorageAccount, its
\* continuation appends the access-policy entry to the vault object.
tokenFromUserCredentials ==
    /\ status = "running" /\ auth = "user.token"
    /\ \E res \in Outcomes :
          /\ LogCall("getToken", res, NoArg)
          /\ IF res = "ok"
             THEN IF pc = "add.getToken"
                  THEN /\ config_vault' =
                             PushPolicy(config_vault, accessPolicyEntry(variant))
                       /\ Goto("add.vaultPush")
                  ELSE /\ auth' = "ready"
                       /\ UNCHANGED <<pc, called, status, out, exitCode,
                                      config_vault>>
             ELSE /\ UNCHANGED config_vault
                  /\ AuthFailure
    /\ UNCHANGED <<Inputs, config_userId, remote>>

\* getKeyVaultClient_adalCallback handing the failure to the callback instead
\* of throwing, so that the request goes on.
getKeyVaultClient_adalCallback_ignoreError ==
    /\ status = "running" /\ auth = "sp.token"
    /\ \E res \in Outcomes :
          /\ LogCall("acquireTokenWithClientCredentials", res, NoArg)
          /\ auth' = "ready"
          /\ UNCHANGED <<pc, called, status, out, exitCode>>
    /\ UNCHANGED <<Inputs, config_vault, config_userId, remote>>

\* The authentication callback of _getKeyVaultClient: a failed
\* acquireTokenWithClientCredentials is rethrown inside the library callback.
getKeyVaultClient_adalCallback ==
    /\ status = "running" /\ auth = "sp.token"
    /\ \E res \in Outcomes :
          /\ LogCall("acquireTokenWithClientCredentials", res, NoArg)
          /\ IF res = "ok"
             THEN /\ auth' = "ready"
                  /\ UNCHANGED <<pc, called, status, out, exitCode>>
             ELSE Crash("uncaught exception")
    /\ UNCHANGED <<Inputs, config_vault, config_userId, remote>>

\* ------------------------------------------------------------------------
\* getSampleVault
\* ------------------------------------------------------------------------

\* First call site of addStorageAccount.
AddStart(v) == IF v = "old" THEN "add.userCreds" ELSE "add.storageCreate"

\* LookupOrCreate with the configured name ignored.
LookupOrCreate_ignoreName(named) == "gsv.rg"

\* if(config.vault) return config.vault; otherwise the credentials are built
\* (a remote exchange in the old variant only) and the lookup-or-create
\* branch is chosen on config.vaultName.
LookupOrCreate(named) == IF named THEN "gsv.get" ELSE "gsv.rg"

\* Where a call of getSampleVault returns to: main's next statement for the
\* call main makes, the caller's idle position for any later call.
ReturnSite == IF Len(called) <= 1 THEN AddStart(variant) ELSE "idle"

\* getSampleVault_enter without the check of config.vault.
getSampleVault_enter_noCache ==
    /\ status = "running" /\ pc = "gsv.enter"
    /\ IF variant = "old"
       THEN Goto("gsv.login")
       ELSE Goto(LookupOrCreate(hasVaultName))
    /\ UNCHANGED <<Inputs, log, config_vault, config_userId, remote, inflight>>

getSampleVault_enter ==
    /\ status = "running" /\ pc = "gsv.enter"
    /\ IF config_vault.set
       THEN Goto(ReturnSite)
       ELSE IF variant = "old"
            THEN Goto("gsv.login")
            ELSE Goto(LookupOrCreate(hasVaultName))
    /\ UNCHANGED <<Inputs, log, config_vault, config_userId, remote, inflight>>

\* _getManagementCredentials of the old variant: loginWithServicePrincipalSecret
getSampleVault_login ==
    SimpleCall("gsv.login", "loginWithServicePrincipalSecret",
               LookupOrCreate(hasVaultName), remote)

\* config.vault = await kvManagementClient.vaults.get(group, config.vaultName)
getSampleVault_get ==
    /\ status = "running" /\ pc = "gsv.get" /\ auth = "ready"
    /\ \E res \in Outcomes :
          /\ LogCall("vaults.get", res,
                     [name |-> "configured", policies |-> <<>>])
          /\ IF res = "ok"
             THEN /\ remote.vaultExists
                  /\ config_vault' = [set |-> TRUE, name |-> remote.vaultName,
                                      policies |-> remote.vaultPolicies]
                  /\ Goto(AddStart(variant))
             ELSE /\ UNCHANGED config_vault
                  /\ Reject
    /\ UNCHANGED <<Inputs, config_userId, remote>>

\* resourceClient.resourceGroups.createOrUpdate(group, {location})
getSampleVault_resourceGroup ==
    SimpleCall("gsv.rg", "resourceGroups.createOrUpdate", "gsv.create",
               [remote EXCEPT !.groupEnsured = TRUE])

\* DefaultPolicies with the entry of the operating principal forgotten.
DefaultPolicies_empty == <<>>

\* kvParams.properties.accessPolicies: one entry for config.objectId, the
\* operating principal.
DefaultPolicies == <<"sp">>

\* const kvName = random_id(); config.vault = await vaults.createOrUpdate(
\* group, kvName, kvParams)
getSampleVault_create ==
    /\ status = "running" /\ pc = "gsv.create" /\ auth = "ready"
    /\ \E res \in Outcomes :
          /\ LogCall("vaults.createOrUpdate", res,
                     [name |-> "fresh", policies |-> DefaultPolicies])
          /\ IF res = "ok"
             THEN /\ remote' = [remote EXCEPT !.vaultExists = TRUE,
                                              !.vaultName = "fresh",
                                              !.vaultPolicies = DefaultPolicies]
                  /\ config_vault' = [set |-> TRUE, name |-> "fresh",
                                      policies |-> DefaultPolicies]
                  /\ Goto(AddStart(variant))
             ELSE /\ UNCHANGED <<remote, config_vault>>
                  /\ Reject
    /\ UNCHANGED <<Inputs, config_userId>>

\* ------------------------------------------------------------------------
\* addStorageAccount
\* ------------------------------------------------------------------------

\* addStorageAccount_create with the role lookup and assignment left out.
addStorageAccount_create_skipRole ==
    SimpleCall("add.storageCreate", "storageAccounts.create",
               IF variant = "old" THEN "add.login" ELSE "add.createKey",
               [remote EXCEPT !.saExists = TRUE])

addStorageAccount_create ==
    SimpleCall("add.storageCreate", "storageAccounts.create", "add.roleList",
               [remote EXCEPT !.saExists = TRUE])

\* addStorageAccount_roleList inside a try block that swallows a failed call.
addStorageAccount_roleList_swallow ==
    /\ status = "running" /\ pc = "add.roleList" /\ auth = "ready"
    /\ \E res \in Outcomes \cup {"empty"} :
          /\ LogCall("roleDefinitions.list", res, NoArg)
          /\ IF res \in {"ok", "Error"} THEN Goto("add.roleAssign") ELSE Reject
    /\ UNCHANGED <<Inputs, config_vault, config_userId, remote>>

\* roleDefinitions.list, then roleList[0].id: an empty list makes the
\* property access throw, which rejects like a failed call.
addStorageAccount_roleList ==
    /\ status = "running" /\ pc = "add.roleList" /\ auth = "ready"
    /\ \E res \in Outcomes \cup {"empty"} :
          /\ LogCall("roleDefinitions.list", res, NoArg)
          /\ IF res = "ok" THEN Goto("add.roleAssign") ELSE Reject
    /\ UNCHANGED <<Inputs, config_vault, config_userId, remote>>

\* Swallowed with the catch block rethrowing every error.
Swallowed_none(code) == FALSE

\* Swallowed with the catch block rethrowing nothing.
Swallowed_any(code) == TRUE

\* catch(e) { if(e.code != 'RoleAssignmentExists') throw e; }
Swallowed(code) == code = "RoleAssignmentExists"

\* What the authorization service answers: the conflict code when the vault
\* service identity already holds the role on the account.
RoleAssignOutcomes(r) ==
    IF r.roleAssigned THEN {"RoleAssignmentExists", "AuthorizationFailed"}
                      ELSE {"ok", "AuthorizationFailed"}

\* The try/catch around roleAssignments.create.  In the new variant the
\* continuation builds the access-policy entry and appends it to the vault
\* object before the next await; in the old one it first logs in and fetches
\* the user token.
addStorageAccount_roleAssign ==
    /\ status = "running" /\ pc = "add.roleAssign" /\ auth = "ready"
    /\ \E res \in RoleAssignOutcomes(remote) :
          /\ LogCall("roleAssignments.create", res, NoArg)
          /\ IF res = "ok" \/ Swallowed(res)
             THEN /\ remote' = [remote EXCEPT !.roleAssigned = TRUE]
                  /\ IF variant = "old"
                     THEN /\ Goto("add.login")
                          /\ UNCHANGED config_vault
                     ELSE /\ config_vault' =
                                PushPolicy(config_vault, accessPolicyEntry(variant))
                          /\ Goto("add.vaultPush")
             ELSE /\ UNCHANGED <<remote, config_vault>>
                  /\ Reject
    /\ UNCHANGED <<Inputs, config_userId>>

\* new KeyVaultManagementClient(await SampleUtil.getManagementCredentials())
addStorageAccount_login ==
    SimpleCall("add.login", "loginWithServicePrincipalSecret", "add.getToken",
               remote)

\* addStorageAccount_vaultPush with a catch that pops the appended entry
\* before rethrowing.
addStorageAccount_vaultPush_undo ==
    /\ status = "running" /\ pc = "add.vaultPush" /\ auth = "ready"
    /\ \E res \in Outcomes :
          /\ LogCall("vaults.createOrUpdate", res,
                     [name |-> config_vault.name,
                      policies |-> config_vault.policies])
          /\ IF res = "ok"
             THEN /\ remote' = [remote EXCEPT
                                  !.vaultExists = TRUE,
                                  !.vaultName = config_vault.name,
                                  !.vaultPolicies = config_vault.policies]
                  /\ UNCHANGED config_vault
                  /\ Goto(IF variant = "old" THEN "add.setStorageAccount"
                                             ELSE "add.createKey")
             ELSE /\ UNCHANGED remote
                  /\ config_vault' =
                        [config_vault EXCEPT !.policies =
                            SubSeq(@, 1, Len(@) - 1)]
                  /\ Reject
    /\ UNCHANGED <<Inputs, config_userId>>

\* kvManagementClient.vaults.createOrUpdate(group, vault.name, vault): the
\* whole vault definition, policy list included, replaces the remote one.
addStorageAccount_vaultPush ==
    /\ status = "running" /\ pc = "add.vaultPush" /\ auth = "ready"
    /\ \E res \in Outcomes :
          /\ LogCall("vaults.createOrUpdate", res,
                     [name |-> config_vault.name,
                      policies |-> config_vault.policies])
          /\ IF res = "ok"
             THEN /\ remote' = [remote EXCEPT
                                  !.vaultExists = TRUE,
                                  !.vaultName = config_vault.name,
                                  !.vaultPolicies = config_vault.policies]
                  /\ Goto(IF variant = "old" THEN "add.setStorageAccount"
                                             ELSE "add.createKey")
             ELSE /\ UNCHANGED remote
                  /\ Reject
    /\ UNCHANGED <<Inputs, config_vault, config_userId>>

\* akvUserClient.setStorageAccount(vaultUri, name, id, 'key1', true, ...)
\* The vault can only manage the keys of an account on which its service
\* identity holds the key-operator role.
addStorageAccount_setStorageAccount ==
    GuardedCall("add.setStorageAccount", "setStorageAccount", "upd.activeKey",
                [remote EXCEPT !.managed = TRUE, !.activeKey = "key1",
                               !.autoRegen = TRUE],
                remote.saExists /\ remote.roleAssigned)

\* keysClient.createKey("key1", 'RSA')
addStorageAccount_createKey ==
    SimpleCall("add.createKey", "createKey", "add.storageUpdate",
               [remote EXCEPT !.vaultKeys = @ \cup {"key1"}])

\* storageAccounts.update(..., {encryption: {keySource: "Microsoft.Keyvault",
\* keyVaultProperties: {keyName: 'key1'}}})
addStorageAccount_update ==
    SimpleCall("add.storageUpdate", "storageAccounts.update", "upd.createKey",
               [remote EXCEPT !.keySource = "Microsoft.Keyvault",
                              !.encKey = "key1"])

\* ------------------------------------------------------------------------
\* updateStorageAccount
\* ------------------------------------------------------------------------

\* kvClient.updateStorageAccount(vaultUri, name, {activeKeyName: 'key2'})
updateStorageAccount_activeKey ==
    GuardedCall("upd.activeKey", "updateStorageAccount", "upd.autoRegen",
                [remote EXCEPT !.activeKey = "key2"], remote.managed)

\* kvClient.updateStorageAccount(vaultUri, name, {autoRegenerateKey: false})
updateStorageAccount_autoRegen ==
    GuardedCall("upd.autoRegen", "updateStorageAccount", "regen.key",
                [remote EXCEPT !.autoRegen = FALSE], remote.managed)

\* keysClient.createKey("key2", 'RSA')
updateStorageAccount_createKey ==
    SimpleCall("upd.createKey", "createKey", "upd.storageUpdate",
               [remote EXCEPT !.vaultKeys = @ \cup {"key2"}])

\* storageAccounts.update(..., keyVaultProperties: {keyName: 'key2'})
updateStorageAccount_update ==
    SimpleCall("upd.storageUpdate", "storageAccounts.update", "regen.key",
               [remote EXCEPT !.keySource = "Microsoft.Keyvault",
                              !.encKey = "key2"])

\* ------------------------------------------------------------------------
\* regenerateStorageAccountKey, getStorageAccounts
\* ------------------------------------------------------------------------

\* old: user client regenerateStorageAccountKey(vaultUri, name, 'key1');
\* new: storageAccounts.regenerateKey(group, name, {keyName: 'key1'})
regenerateStorageAccountKey ==
    GuardedCall("regen.key",
                IF variant = "old" THEN "regenerateStorageAccountKey"
                                   ELSE "storageAccounts.regenerateKey",
                IF variant = "old" THEN "list.accounts"
                                   ELSE "acctSas.listAccountSAS",
                [remote EXCEPT !.regenerated = TRUE],
                variant = "old" => remote.managed)

\* getStorageAccounts followed in main by createBlobSASDefinition instead of
\* createAccountSASDefinition.
getStorageAccounts_thenBlobSas ==
    SimpleCall("list.accounts", "getStorageAccounts", "blobSas.setSasDef",
               remote)

getStorageAccounts ==
    SimpleCall("list.accounts", "getStorageAccounts", "acctSas.setSasDef",
               remote)

\* ------------------------------------------------------------------------
\* createAccountSASDefinition, createBlobSASDefinition, getSASDefinitions
\* ------------------------------------------------------------------------

Range(seq) == {seq[i] : i \in 1..Len(seq)}

\* AccountSasPolicy with the permission string cut down to read and list.
AccountSasPolicy_readOnly ==
    [services |-> <<"b", "f", "q", "t">>,
     resourceTypes |-> <<"s", "c", "o">>,
     permissions |-> <<"r", "l">>]

\* The policy of the account SAS: Services 'bfqt', ResourceTypes 'sco',
\* Permissions 'acdlpruw' (the same strings in both variants).
AccountSasPolicy ==
    [services |-> <<"b", "f", "q", "t">>,
     resourceTypes |-> <<"s", "c", "o">>,
     permissions |-> <<"a", "c", "d", "l", "p", "r", "u", "w">>]

\* The policy of the container SAS: Permissions 'racwdl' on the container
\* 'sample-container' of the blob service and the blobs in it.
ContainerSasPolicy ==
    [services |-> <<"b">>,
     resourceTypes |-> <<"c", "o">>,
     permissions |-> <<"r", "a", "c", "w", "d", "l">>]

\* What a token signed from a policy grants: each letter of the three
\* strings is one flag.
SasToken(policy) ==
    [services |-> Range(policy.services),
     resourceTypes |-> Range(policy.resourceTypes),
     permissions |-> Range(policy.permissions)]

\* The data-plane operations the sample performs with a SAS token: creating
\* a container and writing a blob each need create or write permission on
\* the blob service, at container and at object level.
CreateContainerOp == [service |-> "b", resourceType |-> "c", needs |-> {"c", "w"}]

PutBlobOp == [service |-> "b", resourceType |-> "o", needs |-> {"c", "w"}]

\* A data plane that enforces the token: the service, the resource type and
\* one of the permissions the operation needs must be granted.
Authorised(token, operation) ==
    /\ operation.service \in token.services
    /\ operation.resourceType \in token.resourceTypes
    /\ operation.needs \cap token.permissions # {}

\* The managed secret the vault keeps for a SAS definition.
SasSecret(name, scope, policy) ==
    [name |-> name, scope |-> scope, token |-> SasToken(policy)]

\* The token the blob service client of a function holds: the value of the
\* managed secret (old variant) or the listAccountSAS answer (new variant).
HeldTokens(v, name) ==
    IF v = "new" THEN {SasToken(AccountSasPolicy)}
    ELSE {d.token : d \in {e \in remote.sasSecrets : e.name = name}}

MayDo(v, name, operation) ==
    \E t \in HeldTokens(v, name) : Authorised(t, operation)

\* kvClient.setSasDefinition(vaultUri, name, 'acctall', sasTemplate,
\* 'account', 'PT2H', ...)
createAccountSASDefinition_setSasDefinition ==
    GuardedCall("acctSas.setSasDef", "setSasDefinition", "acctSas.getSecret",
                [remote EXCEPT !.sasDefs = @ \cup {"acctall"},
                               !.sasSecrets = @ \cup
                                  {SasSecret("acctall", "account",
                                             AccountSasPolicy)}],
                remote.managed)

\* kvClient.getSecret(secretId.vault, secretId.name, '')
createAccountSASDefinition_getSecret ==
    GuardedCall("acctSas.getSecret", "getSecret", "acctSas.createContainer",
                remote, "acctall" \in remote.sasDefs)

\* storageAccounts.listAccountSAS(group, name, policy)
createAccountSASDefinition_listAccountSAS ==
    SimpleCall("acctSas.listAccountSAS", "storageAccounts.listAccountSAS",
               "acctSas.createContainer", remote)

\* old: blobService.createContainerIfNotExists('sample-container', cb);
\* new: containerClient.create(), which fails on an existing container
createAccountSASDefinition_createContainer ==
    GuardedCall("acctSas.createContainer",
                IF variant = "old" THEN "createContainerIfNotExists"
                                   ELSE "container.create",
                "acctSas.createBlob",
                [remote EXCEPT !.containers = @ \cup {"sample-container"}],
                /\ variant = "new" => "sample-container" \notin remote.containers
                /\ MayDo(variant, "acctall", CreateContainerOp))

\* old: createBlockBlobFromText('sample-container', 'blob1', 'test data');
\* new: blockBlobClient.upload(content, content.length)
createAccountSASDefinition_createBlob ==
    GuardedCall("acctSas.createBlob",
                IF variant = "old" THEN "createBlockBlobFromText"
                                   ELSE "blockBlob.upload",
                IF variant = "old" THEN "blobSas.setSasDef"
                                   ELSE "del.storageUpdate",
                [remote EXCEPT !.blobs = @ \cup {"blob1"}],
                /\ "sample-container" \in remote.containers
                /\ MayDo(variant, "acctall", PutBlobOp))

\* kvClient.setSasDefinition(vaultUri, name, 'blobcontall', sasTemplate,
\* 'service', 'PT2H', ...)
createBlobSASDefinition_setSasDefinition ==
    GuardedCall("blobSas.setSasDef", "setSasDefinition", "blobSas.getSecret",
                [remote EXCEPT !.sasDefs = @ \cup {"blobcontall"},
                               !.sasSecrets = @ \cup
                                  {SasSecret("blobcontall", "service",
                                             ContainerSasPolicy)}],
                remote.managed)

createBlobSASDefinition_getSecret ==
    GuardedCall("blobSas.getSecret", "getSecret", "blobSas.createBlob",
                remote, "blobcontall" \in remote.sasDefs)

createBlobSASDefinition_createBlob ==
    GuardedCall("blobSas.createBlob", "createBlockBlobFromText",
                "listSas.defs",
                [remote EXCEPT !.blobs = @ \cup {"blob1"}],
                /\ "sample-container" \in remote.containers
                /\ MayDo(variant, "blobcontall", PutBlobOp))

getSASDefinitions ==
    SimpleCall("listSas.defs", "getSasDefinitions", "del.delete", remote)

\* ------------------------------------------------------------------------
\* deleteStorageAccount; when it returns, main returns
\* ------------------------------------------------------------------------

\* deleteStorageAccount_delete calling a read of the account instead of its
\* removal: the account stays registered with the vault.
deleteStorageAccount_delete_keep ==
    GuardedCall("del.delete", "deleteStorageAccount", "end", remote,
                remote.managed)

\* old: getKeyVaultSpClient().deleteStorageAccount(vaultUri, name)
deleteStorageAccount_delete ==
    GuardedCall("del.delete", "deleteStorageAccount", "end",
                [remote EXCEPT !.managed = FALSE], remote.managed)

\* deleteStorageAccount_update calling storageAccounts.delete instead of the
\* update that reverts the key source.
deleteStorageAccount_update_deletes ==
    SimpleCall("del.storageUpdate", "storageAccounts.update", "end",
               [remote EXCEPT !.saExists = FALSE,
                              !.keySource = "Microsoft.Storage",
                              !.encKey = "none"])

\* new: storageAccounts.update(..., {encryption: {keySource:
\* "Microsoft.Storage"}})
deleteStorageAccount_update ==
    SimpleCall("del.storageUpdate", "storageAccounts.update", "end",
               [remote EXCEPT !.keySource = "Microsoft.Storage",
                              !.encKey = "none"])

\* ------------------------------------------------------------------------
\* The program
\* ------------------------------------------------------------------------

Next ==
    \/ ValidateEnv
    \/ sendRequest
    \/ getUserCredentials_acquireToken
    \/ getUserCredentials_interactiveLogin
    \/ tokenFromUserCredentials
    \/ getKeyVaultClient_adalCallback
    \/ getSampleVault_enter
    \/ getSampleVault_login
    \/ getSampleVault_get
    \/ getSampleVault_resourceGroup
    \/ getSampleVault_create
    \/ addStorageAccount_create
    \/ addStorageAccount_roleList
    \/ addStorageAccount_roleAssign
    \/ addStorageAccount_login
    \/ addStorageAccount_vaultPush
    \/ addStorageAccount_setStorageAccount
    \/ addStorageAccount_createKey
    \/ addStorageAccount_update
    \/ updateStorageAccount_activeKey
    \/ updateStorageAccount_autoRegen
    \/ updateStorageAccount_createKey
    \/ updateStorageAccount_update
    \/ regenerateStorageAccountKey
    \/ getStorageAccounts
    \/ createAccountSASDefinition_setSasDefinition
    \/ createAccountSASDefinition_getSecret
    \/ createAccountSASDefinition_listAccountSAS
    \/ createAccountSASDefinition_createContainer
    \/ createAccountSASDefinition_createBlob
    \/ createBlobSASDefinition_setSasDefinition
    \/ createBlobSASDefinition_getSecret
    \/ createBlobSASDefinition_createBlob
    \/ getSASDefinitions
    \/ deleteStorageAccount_delete
    \/ deleteStorageAccount_update

Spec == Init /\ [][Next]_vars

\* ------------------------------------------------------------------------
\* The exported getSampleVault called again by the process once main is done
\* ------------------------------------------------------------------------

\* Most later calls of getSampleVault a run makes.
MaxAgainCalls == 2

AgainCalls ==
    Cardinality({i \in 1..Len(called) : called[i] = "getSampleVault"}) - 1

\* module.exports.getSampleVault called once more, after the previous call
\* (and main) returned.
getSampleVault_again ==
    /\ status = "done" \/ (status = "running" /\ pc = "idle")
    /\ AgainCalls < MaxAgainCalls
    /\ pc' = "gsv.enter"
    /\ auth' = "ready"
    /\ status' = "running"
    /\ called' = Append(called, "getSampleVault")
    /\ UNCHANGED <<Inputs, log, config_vault, config_userId, remote, out,
                   exitCode, inflight>>

NextAgain == Next \/ getSampleVault_again

SpecAgain == Init /\ [][NextAgain]_vars

\* ------------------------------------------------------------------------
\* Vocabulary of the properties
\* ------------------------------------------------------------------------

Idx == 1..Len(log)

AuthOps ==
    {"loginWithServicePrincipalSecret", "acquireToken", "interactiveLogin",
     "getToken", "acquireTokenWithClientCredentials"}

\* A request of the workflow proper (not a login or token exchange).
IsRequest(e) == e.op \notin AuthOps

Acquired(e) == e.site \in {"gsv.get", "gsv.create"} /\ e.res = "ok"

KeyMgmtSites ==
    {"add.setStorageAccount", "add.createKey", "add.storageUpdate",
     "upd.activeKey", "upd.autoRegen", "upd.createKey", "upd.storageUpdate",
     "regen.key", "acctSas.setSasDef", "blobSas.setSasDef", "del.delete",
     "del.storageUpdate"}

DataPlaneSites ==
    {"acctSas.createContainer", "acctSas.createBlob", "blobSas.createBlob"}

\* The call that hands out the SAS token a data-plane call site uses.
SasSourceSites(p) ==
    IF p = "blobSas.createBlob" THEN {"blobSas.getSecret"}
    ELSE {"acctSas.getSecret", "acctSas.listAccountSAS"}

Ended == status \in {"rejected", "crashed", "stalled"}

Completed == \E k \in 1..Len(out) : out[k].msg = "Sample execution complete."

\* ------------------------------------------------------------------------
\* C1: in both variants the vault is acquired before the storage account is
\* created, the role-assignment attempt has completed before any
\* key-management call, and the SAS token is obtained before any data-plane
\* write; no key-management call is made on an account on which the vault's
\* service identity holds no role assignment.
\* ------------------------------------------------------------------------
C1_StepOrder ==
    /\ \A i \in Idx : log[i].site = "add.storageCreate" =>
          \E j \in 1..(i-1) : Acquired(log[j])
    /\ \A i \in Idx : (log[i].site \in KeyMgmtSites /\ IsRequest(log[i])) =>
          /\ \E j \in 1..(i-1) :
                /\ log[j].site = "add.roleAssign"
                /\ log[j].res \in {"ok", "RoleAssignmentExists"}
          /\ remote.roleAssigned
    /\ \A i \in Idx : log[i].site \in DataPlaneSites =>
          \E j \in 1..(i-1) :
                /\ log[j].site \in SasSourceSites(log[i].site)
                /\ IsRequest(log[j]) /\ log[j].res = "ok"

C1_Witness ==
    /\ \E i \in Idx : log[i].site = "blobSas.createBlob" /\ log[i].res = "ok"
    /\ \E i \in Idx : log[i].site = "regen.key" /\ IsRequest(log[i])

\* ------------------------------------------------------------------------
\* C2: when roleAssignments.create fails with 'RoleAssignmentExists',
\* addStorageAccount does not raise: the run goes on with the access-policy
\* step exactly as after a created assignment.
\* ------------------------------------------------------------------------
AfterRoleAssign(v) == IF v = "old" THEN "add.login" ELSE "add.vaultPush"

C2_ExistsContinues ==
    [][(/\ pc = "add.roleAssign"
        /\ Len(log') = Len(log) + 1
        /\ log'[Len(log')].res = "RoleAssignmentExists")
       => (/\ status' = "running"
           /\ pc' = AfterRoleAssign(variant)
           /\ remote'.roleAssigned
           /\ out' = out
           /\ (variant = "new" =>
                 config_vault'.policies =
                     Append(config_vault.policies, "saIdentity")))]_vars

C2_Witness ==
    /\ status = "done"
    /\ \E i \in Idx : /\ log[i].res = "RoleAssignmentExists"
                      /\ \E j \in (i+1)..Len(log) :
                            log[j].site = "add.vaultPush" /\ log[j].res = "ok"

\* ------------------------------------------------------------------------
\* C3: when roleAssignments.create fails with any other code, the run aborts
\* there: the error leaves addStorageAccount and main and no later remote
\* operation is invoked.
\* ------------------------------------------------------------------------
C3_OtherErrorAborts ==
    \A i \in Idx :
        (/\ log[i].site = "add.roleAssign"
         /\ log[i].res \notin {"ok", "RoleAssignmentExists"})
        => /\ i = Len(log)
           /\ status = "rejected"
           /\ pc = "add.roleAssign"
           /\ ~Completed

C3_Witness ==
    /\ log # <<>>
    /\ log[Len(log)].site = "add.roleAssign"
    /\ log[Len(log)].res = "AuthorizationFailed"
    /\ status = "rejected"

\* ------------------------------------------------------------------------
\* C4: with a configured vault name getSampleVault looks the vault up and
\* never invokes the vault create operation nor the resource-group
\* create-or-update; the vault it returns is the configured one.
\* ------------------------------------------------------------------------
C4_LookupOnly ==
    hasVaultName =>
        /\ \A i \in Idx :
              Fn(log[i].site) = "getSampleVault" =>
                  /\ log[i].site \notin {"gsv.rg", "gsv.create"}
                  /\ log[i].op \in {"vaults.get",
                                    "loginWithServicePrincipalSecret"}
        /\ config_vault.set => config_vault.name = "configured"
        /\ remote.vaultName = "configured"

C4_Witness ==
    /\ hasVaultName
    /\ config_vault.set
    /\ \E i \in Idx : log[i].site = "gsv.get" /\ log[i].res = "ok"
    /\ \E i \in Idx : log[i].site = "add.storageCreate"

\* ------------------------------------------------------------------------
\* C5: with no configured vault name getSampleVault never looks a vault up
\* and invokes the vault create operation once, with a freshly generated
\* name and the default access policy of the operating principal: never more
\* than once, and exactly once in every run in which getSampleVault got past
\* the calls that precede the create.
\* ------------------------------------------------------------------------
Creates == {i \in Idx : log[i].site = "gsv.create"}

C5_CreateOnce ==
    ~hasVaultName =>
        /\ \A i \in Idx : log[i].site # "gsv.get" /\ log[i].op # "vaults.get"
        /\ Cardinality(Creates) <= 1
        /\ \A i \in Creates :
              /\ log[i].op = "vaults.createOrUpdate"
              /\ log[i].arg = [name |-> "fresh", policies |-> <<"sp">>]
        /\ (config_vault.set \/ (pc # "load" /\ Fn(pc) # "getSampleVault"))
              => Cardinality(Creates) = 1
        /\ (Cardinality(Creates) = 0 /\ Ended) =>
              /\ Fn(pc) = "getSampleVault" \/ pc = "load"
              /\ (log # <<>> => log[Len(log)].res # "ok")

C5_Witness ==
    /\ ~hasVaultName
    /\ config_vault.set
    /\ Cardinality(Creates) = 1
    /\ pc = "add.roleList"

\* ------------------------------------------------------------------------
\* C6: whenever some required configuration value is missing the program
\* fails at once, before any remote call, and the failure names every
\* missing value, in both utility-module variants.
\* ------------------------------------------------------------------------
C6_MissingConfigListed ==
    (pc = "load" /\ status # "running") =>
        /\ log = <<>>
        /\ exitCode # 0
        /\ Len(out) = 1
        /\ {out[1].names[k] : k \in 1..Len(out[1].names)} = RequiredEnvSet \ env

\* ------------------------------------------------------------------------
\* C7: after acquiring the vault main invokes addStorageAccount,
\* updateStorageAccount, regenerateStorageAccountKey, getStorageAccounts,
\* createAccountSASDefinition, createBlobSASDefinition, getSASDefinitions and
\* deleteStorageAccount, in this order, each after the previous one completed
\* successfully.
\* ------------------------------------------------------------------------
EightOperations ==
    <<"getSampleVault", "addStorageAccount", "updateStorageAccount",
      "regenerateStorageAccountKey", "getStorageAccounts",
      "createAccountSASDefinition", "createBlobSASDefinition",
      "getSASDefinitions", "deleteStorageAccount">>

C7_EightInOrder ==
    /\ Len(called) <= Len(EightOperations)
    /\ called = SubSeq(EightOperations, 1, Len(called))
    /\ status = "done" => called = EightOperations

\* ------------------------------------------------------------------------
\* C8: any unhandled failure of a step ends the process with a non-zero
\* status after printing the error; the completion message is printed, with
\* status zero, only when every step completed, never by a failed run.
\* ------------------------------------------------------------------------
C8_FailureExitsNonZero ==
    /\ Ended => (exitCode # 0 /\ out # <<>> /\ ~Completed)
    /\ Completed => (status = "done" /\ exitCode = 0
                     /\ \A i \in Idx : log[i].res = "ok"
                           \/ log[i].res = "RoleAssignmentExists"
                           \/ log[i].op = "acquireToken")

\* ------------------------------------------------------------------------
\* C9: (as stated) every authentication failure, the cached user-token
\* acquisition included, ends the run, and no authentication attempt follows
\* it.
\* ------------------------------------------------------------------------
C9_AnyAuthFailureFatal ==
    \A i \in Idx :
        (log[i].op \in AuthOps /\ log[i].res # "ok")
        => /\ i = Len(log)
           /\ Ended

\* C9 (amended): a failed service-principal exchange, interactive login or
\* user-token fetch ends the run with no further authentication attempt or
\* remote call; a failed cached acquisition in _getUserCredentials is logged
\* and followed by one interactive login at the same call site.
FatalAuthOps == AuthOps \ {"acquireToken"}

C9_AuthFailureFatalButCached ==
    \A i \in Idx : log[i].res # "ok" =>
        /\ log[i].op \in FatalAuthOps =>
              (i = Len(log) /\ Ended /\ ~Completed)
        /\ log[i].op = "acquireToken" =>
              IF i = Len(log)
              THEN status = "running" /\ auth = "user.interactive"
              ELSE /\ log[i+1].op = "interactiveLogin"
                   /\ log[i+1].site = log[i].site

C9_Witness ==
    /\ status = "stalled"
    /\ Len(log) >= 2
    /\ log[Len(log)].op = "interactiveLogin" /\ log[Len(log)].res # "ok"
    /\ log[Len(log)-1].op = "acquireToken" /\ log[Len(log)-1].res # "ok"

\* ------------------------------------------------------------------------
\* C10: (as stated) no call is invoked twice at one call site, and the only
\* failure after which the run goes on is 'RoleAssignmentExists' in step 3.
\* ------------------------------------------------------------------------
NoCallRepeated ==
    \A i, j \in Idx :
        (log[i].site = log[j].site /\ log[i].op = log[j].op) => i = j

GoesOnAfter(i) == i < Len(log) \/ status \in {"running", "done"}

C10_OnlyRoleConflictSwallowed ==
    /\ NoCallRepeated
    /\ \A i \in Idx : (log[i].res # "ok" /\ GoesOnAfter(i)) =>
          (log[i].site = "add.roleAssign" /\ log[i].res = "RoleAssignmentExists")

\* C10 (amended): no call is invoked twice at one call site and no failed
\* call is re-invoked; the failures after which the run goes on are
\* 'RoleAssignmentExists' in step 3 and a failed cached user-token
\* acquisition, which falls through to the interactive login.
C10_NoRetryTwoSwallows ==
    /\ NoCallRepeated
    /\ \A i \in Idx : (log[i].res # "ok" /\ GoesOnAfter(i)) =>
          \/ log[i].site = "add.roleAssign" /\ log[i].res = "RoleAssignmentExists"
          \/ log[i].op = "acquireToken"

C10_Witness ==
    /\ status = "done"
    /\ \E i \in Idx : log[i].op = "acquireToken" /\ log[i].res # "ok"
                      /\ log[i].site = "regen.key"
    /\ \E i \in Idx : log[i].res = "RoleAssignmentExists"


\* ------------------------------------------------------------------------
\* C11: the workflow performs no compensating action: when a step fails,
\* every side effect of the earlier steps (created vault, created storage
\* account, role assignment, pushed access policy, registered account, keys,
\* SAS definitions, container, blob) is still in place, and no delete,
\* deregister or revert call follows the failure.
\* ------------------------------------------------------------------------
OkAt(site) ==
    \E i \in Idx : log[i].site = site /\ IsRequest(log[i]) /\ log[i].res = "ok"

TeardownSites == {"del.delete", "del.storageUpdate"}

C11_NoCompensation ==
    Ended =>
        /\ log # <<>> => log[Len(log)].res # "ok"
        /\ \A i \in Idx :
              (log[i].site \in TeardownSites /\ IsRequest(log[i])) => i = Len(log)
        /\ OkAt("gsv.rg") => remote.groupEnsured
        /\ OkAt("gsv.create") => (remote.vaultExists /\ remote.vaultName = "fresh")
        /\ OkAt("add.storageCreate") => remote.saExists
        /\ OkAt("add.roleAssign") => remote.roleAssigned
        /\ OkAt("add.vaultPush") =>
              /\ remote.vaultPolicies = config_vault.policies
              /\ remote.vaultPolicies[Len(remote.vaultPolicies)]
                    \in {"user", "saIdentity"}
        /\ OkAt("add.setStorageAccount") => remote.managed
        /\ OkAt("add.createKey") => "key1" \in remote.vaultKeys
        /\ OkAt("add.storageUpdate") => remote.keySource = "Microsoft.Keyvault"
        /\ OkAt("acctSas.setSasDef") => "acctall" \in remote.sasDefs
        /\ OkAt("blobSas.setSasDef") => "blobcontall" \in remote.sasDefs
        /\ OkAt("acctSas.createContainer") =>
              "sample-container" \in remote.containers
        /\ OkAt("acctSas.createBlob") => "blob1" \in remote.blobs

C11_Witness ==
    /\ Ended
    /\ OkAt("add.storageCreate") /\ OkAt("add.vaultPush")
    /\ OkAt("acctSas.createContainer")
    /\ log[Len(log)].site = "acctSas.createBlob"


\* ------------------------------------------------------------------------
\* C12: teardown is the last step of every successful run; after it the
\* storage account is no longer associated with the vault (deregistered, or
\* its key source back to account-managed) and the vault still exists: no
\* execution deletes the vault.
\* ------------------------------------------------------------------------
C12_TeardownLeavesVault ==
    /\ status = "done" =>
          /\ log[Len(log)].site \in TeardownSites
          /\ IsRequest(log[Len(log)]) /\ log[Len(log)].res = "ok"
          /\ called[Len(called)] = "deleteStorageAccount"
          /\ ~remote.managed
          /\ remote.keySource = "Microsoft.Storage"
          /\ remote.vaultExists
    /\ config_vault.set => remote.vaultExists
    /\ ~remote.vaultDeleted
    /\ hasVaultName => remote.vaultExists

C12_Witness ==
    /\ status = "done"
    /\ OkAt("add.setStorageAccount") \/ OkAt("add.storageUpdate")
    /\ remote.vaultExists


\* ------------------------------------------------------------------------
\* C13: (as stated) the storage account is created, then updated, then
\* deleted at the end of the run: after a successful run the storage account
\* created in step 2 no longer exists.
\* ------------------------------------------------------------------------
LifecycleInOrder ==
    \E i, j, k \in Idx :
        /\ i < j /\ j < k
        /\ log[i].site = "add.storageCreate" /\ log[i].res = "ok"
        /\ log[j].site \in {"upd.activeKey", "upd.storageUpdate"}
        /\ IsRequest(log[j]) /\ log[j].res = "ok"
        /\ log[k].site \in TeardownSites
        /\ IsRequest(log[k]) /\ log[k].res = "ok"

C13_AccountDeleted ==
    status = "done" => (LifecycleInOrder /\ ~remote.saExists)

\* C13 (amended): the storage account is created, then updated, then, at the
\* end of the run, removed from the vault (deregistered, or its key source
\* reverted); the storage account itself is never deleted and still exists
\* after a successful run.
C13_AccountRemovedFromVaultOnly ==
    /\ status = "done" =>
          /\ LifecycleInOrder
          /\ remote.saExists
          /\ ~remote.managed /\ remote.encKey = "none"
    /\ OkAt("add.storageCreate") => remote.saExists

C13_Witness ==
    /\ status = "done"
    /\ remote.saExists
    /\ remote.regenerated


\* ------------------------------------------------------------------------
\* C14: a SAS definition created with permission string "acdlpruw" and scope
\* "account" yields a retrievable managed secret whose token authorises
\* exactly the operations the permission string implies: on a data plane
\* that enforces the granted set, container creation and blob upload
\* succeed and an operation outside the set is refused.
\* ------------------------------------------------------------------------
\* Permissions of the storage service that "acdlpruw" does not name
\* (delete version, tags, filter, immutability).
OtherPermissions == {"x", "t", "f", "i"}

OutsideOps ==
    [service : {"b"}, resourceType : {"c", "o"},
     needs : (SUBSET OtherPermissions) \ {{}}]

AccountSecrets == {d \in remote.sasSecrets : d.name = "acctall"}

C15_Sequential ==
    /\ Cardinality(inflight) <= 1
    /\ \A c \in inflight : c = CurrentCall /\ status = "running"
    /\ pc \in LocalSites => inflight = {}
    /\ status # "running" => inflight = {}

C15_Witness ==
    /\ variant = "old"
    /\ inflight = {<<"acctSas.createBlob", "ready">>}
    /\ OkAt("acctSas.createContainer")


\* ------------------------------------------------------------------------
\* C16: step 4 only appends to the access-policy list: the vault definition
\* pushed carries every entry the list had before the step, unchanged and in
\* order, followed by exactly one new entry; no step ever removes or changes
\* an entry, so neither the in-memory nor the remote list ever shrinks.
\* ------------------------------------------------------------------------
IsPrefix(s, t) == Len(s) <= Len(t) /\ s = SubSeq(t, 1, Len(s))

NewEntry == IF variant = "old" THEN "user" ELSE "saIdentity"

C16_AppendOnly ==
    [][/\ IsPrefix(remote.vaultPolicies, remote'.vaultPolicies)
       /\ IsPrefix(config_vault.policies, config_vault'.policies)
       /\ (pc = "add.vaultPush" /\ Len(log') = Len(log) + 1) =>
             /\ log'[Len(log')].arg.policies =
                   Append(remote.vaultPolicies, NewEntry)
             /\ log'[Len(log')].arg.name = remote.vaultName
             /\ log'[Len(log')].res = "ok" =>
                   remote'.vaultPolicies = Append(remote.vaultPolicies, NewEntry)
      ]_vars

C16_Witness ==
    /\ hasVaultName
    /\ OkAt("add.vaultPush")
    /\ Len(remote.vaultPolicies) = 2
    /\ remote.vaultPolicies[1] = "pre"


\* ------------------------------------------------------------------------
\* C17: (as stated) after the first successful interactive login every later
\* request for user credentials in the run is served from the in-memory
\* token cache, so the interactive login is performed at most once per run.
\* ------------------------------------------------------------------------
Logins == {i \in Idx : log[i].op = "interactiveLogin"}

FailedCacheReads ==
    {i \in Idx : log[i].op = "acquireToken" /\ log[i].res # "ok"}

LoggedInBefore(i) ==
    \E j \in 1..(i-1) : log[j].op = "interactiveLogin" /\ log[j].res = "ok"

C17_LoginAtMostOnce ==
    /\ Cardinality(Logins) <= 1
    /\ \A i \in Logins : ~LoggedInBefore(i)

\* C17 (amended): after the first successful interactive login every later
\* request for user credentials first asks the in-memory token cache; the
\* interactive login is performed again only when that cached acquisition
\* fails, so a run performs at most one interactive login more than it has
\* failed cached acquisitions.
C17_LoginOnlyAfterCacheMiss ==
    /\ \A i \in Logins : LoggedInBefore(i) =>
          /\ i - 1 \in FailedCacheReads
          /\ log[i-1].site = log[i].site
    /\ \A i \in Idx : log[i].op = "acquireToken" => LoggedInBefore(i)
    /\ Cardinality(Logins) <= 1 + Cardinality(FailedCacheReads)
    /\ config_userId <=>
          \E i \in Logins : log[i].res = "ok"

C17_Witness ==
    /\ Cardinality(Logins) = 3
    /\ Cardinality(FailedCacheReads) = 2
    /\ OkAt("regen.key")


\* ------------------------------------------------------------------------
\* C18: once getSampleVault has completed successfully, every later call in
\* the same process returns the same vault reference and invokes no remote
\* operation: no credential exchange, no lookup, no resource-group
\* create-or-update, no vault create.
\* ------------------------------------------------------------------------
C18_CachedVaultReturned ==
    [][AgainCalls' > 0 =>
          /\ log' = log
          /\ config_vault' = config_vault
          /\ config_vault.set
          /\ remote' = remote
          /\ inflight' = {}
          /\ pc' \in {"gsv.enter", "idle"}]_vars

C18_Witness ==
    /\ AgainCalls = 2
    /\ pc = "idle"
    /\ config_vault.set


\* ------------------------------------------------------------------------
\* C19: in the vault-managed variant createBlobSASDefinition uploads a blob
\* to 'sample-container' without creating the container; in every run that
\* reaches that upload the container has already been created by
\* createAccountSASDefinition, which main runs to completion first.
\* ------------------------------------------------------------------------
C19_ContainerCreatedBefore ==
    /\ \A i \in Idx : log[i].site = "blobSas.createBlob" =>
          /\ variant = "old"
          /\ \E j \in 1..(i-1) :
                /\ log[j].site = "acctSas.createContainer"
                /\ log[j].res = "ok"
          /\ \E j \in 1..(i-1) :
                log[j].site = "acctSas.createBlob" /\ log[j].res = "ok"
    /\ \A i \in Idx : Fn(log[i].site) = "createBlobSASDefinition" =>
          log[i].op \notin {"createContainerIfNotExists", "container.create"}
    /\ pc = "blobSas.createBlob" => "sample-container" \in remote.containers

C19_Witness ==
    /\ pc = "listSas.defs"
    /\ OkAt("blobSas.createBlob")
    /\ "sample-container" \in remote.containers

\* ------------------------------------------------------------------------
\* C20: the access-policy entry is appended in place to the in-memory vault
\* (the object getSampleVault caches) before the vault definition is pushed:
\* whenever the push of step 4 fails, the in-memory, cached vault still holds
\* the new entry while the remote policy list is unchanged.
\* ------------------------------------------------------------------------
AcquiredEntries == {"pre", "sp"}

C20_AppendSurvivesFailedPush ==
    /\ pc = "add.vaultPush" =>
          /\ config_vault.set
          /\ config_vault.policies = Append(remote.vaultPolicies, NewEntry)
    /\ \A i \in Idx :
          (log[i].site = "add.vaultPush" /\ log[i].res # "ok") =>
             /\ status = "rejected"
             /\ config_vault.policies = log[i].arg.policies
             /\ config_vault.policies = Append(remote.vaultPolicies, NewEntry)
             /\ \A k \in 1..Len(remote.vaultPolicies) :
                   remote.vaultPolicies[k] \in AcquiredEntries

C20_Witness ==
    /\ status = "rejected"
    /\ log[Len(log)].site = "add.vaultPush"
    /\ log[Len(log)].res = "Error"
    /\ Len(config_vault.policies) = Len(remote.vaultPolicies) + 1

====
